---- MODULE Spec2Model ----
(***************************************************************************)
(* Model of tools/net/ynl/lib/nlspec.py: loading a Netlink family spec.    *)
(*                                                                         *)
(* The state is that of one SpecFamily under construction: the raw         *)
(* document (yaml), the dictionaries the family owns (attr_sets, msgs,     *)
(* req_by_value, rsp_by_value, ops), the pending list _resolution_list and *)
(* the locals of the resolution loop of SpecFamily.__init__ (unresolved,   *)
(* resolved, last_exception, the position of the for loop).                *)
(*                                                                         *)
(* Conventions.  An operation's name is its position in the document's     *)
(* operation list and an attribute's name its position in the set's        *)
(* attribute list (names are unique keys).  None stands for Python's None  *)
(* and for an absent integer-valued key, NoKey for an absent string-valued *)
(* key, Unset for an attribute removed by delattr.                         *)
(***************************************************************************)
EXTENDS Integers, Sequences, FiniteSets, TLC

\* ------------------------------------------------------------------ bounds
MaxOps == 2
MaxIdOps == 3
MaxAttrs == 3
MaxVal == 2

\* ---------------------------------------------------------------- sentinels
None == 0 - 1
NoKey == "<absent>"
Unset == "<unset>"

\* -------------------------------------------------------- the raw document
\* A "do" or "dump" sub-declaration: whether the key is present, the value
\* under request (None when request or its value is absent), whether reply
\* is present, and the value under reply.
NoMode == [present |-> FALSE, request_value |-> None,
           reply |-> FALSE, reply_value |-> None]

Mode(rq, rp, rv) == [present |-> TRUE, request_value |-> rq,
                     reply |-> rp, reply_value |-> rv]

\* One entry of operations.list.
OpEntry(do, dump, notify, event, aset, value) ==
  [do |-> do, dump |-> dump, notify |-> notify, event |-> event,
   attribute_set |-> aset, value |-> value]

\* One entry of attribute-sets: a name and the attribute entries, each with
\* its explicit value or None.
AttrSetEntry(name, attributes) == [name |-> name, attributes |-> attributes]

SeqsUpTo(S, n) == UNION {[1..k -> S] : k \in 0..n}

PlainDo == Mode(None, TRUE, None)

\* Attribute-set names an operation may declare: none, the empty string, the
\* name of a declared set, a name that matches no set.
AttrSetRefs == {NoKey, "", "s1", "nx"}

S1 == AttrSetEntry("s1", <<[value |-> None]>>)
S0 == AttrSetEntry("s1", <<>>)

\* Entries for the resolution engine: reserved, event and call entries with
\* every attribute-set reference, and notifications with or without a set
\* of their own; a notification names any of the MaxOps operation names,
\* which may lie beyond the list's end.
EngineEntries ==
  {OpEntry(NoMode, NoMode, None, e, a, None) : e \in BOOLEAN, a \in AttrSetRefs}
  \cup {OpEntry(PlainDo, NoMode, None, FALSE, a, None) : a \in AttrSetRefs}
  \cup {OpEntry(NoMode, NoMode, n, FALSE, a, None) :
          n \in 1..MaxOps, a \in {NoKey, "s1"}}

EngineDocs ==
  {[attribute_sets |-> s, enum_model |-> m, list |-> l] :
     s \in {<<>>, <<S1>>}, m \in {"unified", "directional"},
     l \in SeqsUpTo(EngineEntries, MaxOps)}

\* One-entry documents carrying every combination of the keys do, dump,
\* notify and event.
KeyEntries ==
  {OpEntry(d, u, n, e, a, None) :
     d \in {NoMode, PlainDo}, u \in {NoMode, Mode(None, FALSE, None)},
     n \in {None, 1}, e \in BOOLEAN, a \in AttrSetRefs}

KeyDocs ==
  {[attribute_sets |-> <<S1>>, enum_model |-> m, list |-> <<x>>] :
     m \in {"unified", "directional"}, x \in KeyEntries}

\* Documents for identifier assignment: every entry resolves (it declares
\* the attribute set s1); the explicit values vary.
ExplicitVals == {None, 0, MaxVal}

UnifiedEntries ==
  {OpEntry(PlainDo, NoMode, None, FALSE, "s1", v) : v \in ExplicitVals}
  \cup {OpEntry(NoMode, NoMode, 1, FALSE, "s1", None),
        OpEntry(NoMode, NoMode, None, FALSE, "s1", None)}

DirectionalEntries ==
  {OpEntry(NoMode, NoMode, 1, FALSE, "s1", v) : v \in ExplicitVals}
  \cup {OpEntry(Mode(rq, FALSE, None), NoMode, None, FALSE, "s1", None) :
          rq \in ExplicitVals}
  \cup {OpEntry(Mode(None, TRUE, rv), NoMode, None, FALSE, "s1", None) :
          rv \in ExplicitVals}

IdDocs ==
  {[attribute_sets |-> <<S0>>, enum_model |-> "unified", list |-> l] :
     l \in SeqsUpTo(UnifiedEntries, MaxIdOps)}
  \cup {[attribute_sets |-> <<S0>>, enum_model |-> "directional", list |-> l] :
          l \in SeqsUpTo(DirectionalEntries, MaxIdOps)}

\* Documents for attribute-set construction: one set whose entries carry
\* every choice of explicit value, and one operation using it.
AttrDocs ==
  {[attribute_sets |-> <<AttrSetEntry("s1", at)>>, enum_model |-> "unified",
    list |-> <<OpEntry(PlainDo, NoMode, None, FALSE, "s1", None)>>] :
     at \in SeqsUpTo([value : {None} \cup (0..MaxVal)], MaxAttrs)}

\* The directional example: call A (do, no reply), call B (do with reply),
\* notify C of B.
DirectionalExample ==
  [attribute_sets |-> <<S0>>, enum_model |-> "directional",
   list |-> <<OpEntry(Mode(None, FALSE, None), NoMode, None, FALSE, "s1", None),
              OpEntry(Mode(None, TRUE, None), NoMode, None, FALSE, "s1", None),
              OpEntry(NoMode, NoMode, 2, FALSE, NoKey, None)>>]

Docs == EngineDocs \cup KeyDocs \cup IdDocs \cup AttrDocs \cup {DirectionalExample}

\* ---------------------------------------------------------------- elements
\* Every SpecElement of the model, as <<class, index, sub-index>>.
Family == <<"SpecFamily", 0, 0>>
AttrSetElem(s) == <<"SpecAttrSet", s, 0>>
AttrElem(s, j) == <<"SpecAttr", s, j>>
OpElem(i) == <<"SpecOperation", i, 0>>
NoElem == <<"", 0, 0>>

VARIABLES
  yaml,             \* the raw document
  pc,               \* position in SpecFamily.__init__
  resolution_list,  \* self._resolution_list
  unresolved,       \* the list the current pass walks
  pos,              \* index in unresolved of the for loop's next element
  resolved,         \* elements resolved in the current pass
  last_exception,   \* the element whose KeyError was caught last
  error,            \* the exception that ended the load, "" if none
  attr_sets,        \* name -> SpecAttrSet
  msgs,             \* name -> SpecOperation
  req_by_value,     \* request id -> operation name
  rsp_by_value,     \* response id -> operation name
  ops,              \* names of the operations in self.ops
  attr_set,         \* operation name -> its attr_set (a set's name) or Unset
  super_resolved,   \* the elements whose _super_resolved is True
  calls,            \* history: every resolve() call, in order
  passes            \* history: passes of the while loop begun

vars == <<yaml, pc, resolution_list, unresolved, pos, resolved, last_exception,
          error, attr_sets, msgs, req_by_value, rsp_by_value, ops, attr_set,
          super_resolved, calls, passes>>

\* ------------------------------------------------- SpecAttrSet.__init__
\* The value an entry gets when the running counter is val.
AttrValue(elem, val) == IF elem.value # None THEN elem.value ELSE val

\* Mutant: an explicit value does not move the running counter.
RECURSIVE AttrValuesFrom_NoReset(_, _, _)
AttrValuesFrom_NoReset(attributes, k, val) ==
  IF k > Len(attributes) THEN <<>>
  ELSE <<AttrValue(attributes[k], val)>>
       \o AttrValuesFrom_NoReset(attributes, k + 1, val + 1)

\* The values of the entries k.. of the list, the counter being val at k.
RECURSIVE AttrValuesFrom(_, _, _)
AttrValuesFrom(attributes, k, val) ==
  IF k > Len(attributes) THEN <<>>
  ELSE LET v == AttrValue(attributes[k], val)
       IN  <<v>> \o AttrValuesFrom(attributes, k + 1, v + 1)

\* attrs_by_val[attr.value] = attr, in list order: the last entry with a
\* value owns its slot.
AttrsByVal(attrs) ==
  [v \in {attrs[j].value : j \in DOMAIN attrs} |->
     attrs[CHOOSE j \in DOMAIN attrs :
             /\ attrs[j].value = v
             /\ \A h \in DOMAIN attrs : attrs[h].value = v => h <= j]]

SpecAttrSet(elem) ==
  LET vals  == AttrValuesFrom(elem.attributes, 1, 0)
      attrs == [j \in DOMAIN vals |-> [name |-> j, value |-> vals[j]]]
  IN  [name |-> elem.name, attrs |-> attrs, attrs_by_val |-> AttrsByVal(attrs)]

\* ------------------------------------------------- SpecOperation.__init__
IsCall(elem) == elem.do.present \/ elem.dump.present
IsAsync(elem) == elem.notify # None \/ elem.event
IsResv(elem) == ~IsAsync(elem) /\ ~IsCall(elem)

CombinedValue(req_value, rsp_value) ==
  IF req_value = rsp_value THEN req_value ELSE None

SpecOperation(elem, req_value, rsp_value) ==
  [value |-> CombinedValue(req_value, rsp_value),
   req_value |-> req_value, rsp_value |-> rsp_value,
   is_call |-> IsCall(elem), is_async |-> IsAsync(elem),
   is_resv |-> IsResv(elem)]

\* --------------------------------------------------- _dictify_ops_unified
UnifiedValue(elem, val) == IF elem.value # None THEN elem.value ELSE val

RECURSIVE UnifiedFrom(_, _, _)
UnifiedFrom(list, k, val) ==
  IF k > Len(list) THEN <<>>
  ELSE LET v == UnifiedValue(list[k], val)
       IN  <<SpecOperation(list[k], v, v)>> \o UnifiedFrom(list, k + 1, v + 1)

\* Mutant: the counter starts at 1.
DictifyOpsUnified_FromOne(list) == [ok |-> TRUE, msgs |-> UnifiedFrom(list, 1, 1)]

DictifyOpsUnified(list) == [ok |-> TRUE, msgs |-> UnifiedFrom(list, 1, 0)]

\* ----------------------------------------------- _dictify_ops_directional
\* "if v:" is Python truthiness: None and 0 are both false.
Truthy(v) == v # None /\ v # 0

\* Mutant: a call advances the response counter whether or not it declares
\* a reply.
DirectionalEntry_AlwaysInc(elem, req_val, rsp_val) ==
  IF elem.notify # None
  THEN LET r == IF elem.value # None THEN elem.value ELSE rsp_val
       IN  [ok |-> TRUE, req |-> None, rsp |-> r,
            req_next |-> req_val, rsp_next |-> r + 1]
  ELSE IF elem.do.present \/ elem.dump.present
  THEN LET mode == IF elem.do.present THEN elem.do ELSE elem.dump
           rq == IF Truthy(mode.request_value) THEN mode.request_value
                 ELSE req_val
           rs == IF mode.reply /\ Truthy(mode.reply_value)
                 THEN mode.reply_value ELSE rsp_val
       IN  [ok |-> TRUE, req |-> rq, rsp |-> rs,
            req_next |-> rq + 1, rsp_next |-> rs + 1]
  ELSE [ok |-> FALSE, req |-> None, rsp |-> None,
        req_next |-> req_val, rsp_next |-> rsp_val]

\* Mutant: a notification advances the request counter too.
DirectionalEntry_NotifyIncReq(elem, req_val, rsp_val) ==
  IF elem.notify # None
  THEN LET r == IF elem.value # None THEN elem.value ELSE rsp_val
       IN  [ok |-> TRUE, req |-> None, rsp |-> r,
            req_next |-> req_val + 1, rsp_next |-> r + 1]
  ELSE IF elem.do.present \/ elem.dump.present
  THEN LET mode == IF elem.do.present THEN elem.do ELSE elem.dump
           rq == IF Truthy(mode.request_value) THEN mode.request_value
                 ELSE req_val
           rs == IF mode.reply /\ Truthy(mode.reply_value)
                 THEN mode.reply_value ELSE rsp_val
           rsp_inc == IF mode.reply THEN 1 ELSE 0
       IN  [ok |-> TRUE, req |-> rq, rsp |-> rs,
            req_next |-> rq + 1, rsp_next |-> rs + rsp_inc]
  ELSE [ok |-> FALSE, req |-> None, rsp |-> None,
        req_next |-> req_val, rsp_next |-> rsp_val]

\* One iteration of the loop: the identifiers the entry gets and the
\* counters the next entry sees; ok is FALSE where the code raises
\* "Can't parse directional ops".
DirectionalEntry(elem, req_val, rsp_val) ==
  IF elem.notify # None
  THEN LET r == IF elem.value # None THEN elem.value ELSE rsp_val
       IN  [ok |-> TRUE, req |-> None, rsp |-> r,
            req_next |-> req_val, rsp_next |-> r + 1]
  ELSE IF elem.do.present \/ elem.dump.present
  THEN LET mode == IF elem.do.present THEN elem.do ELSE elem.dump
           rq == IF Truthy(mode.request_value) THEN mode.request_value
                 ELSE req_val
           rs == IF mode.reply /\ Truthy(mode.reply_value)
                 THEN mode.reply_value ELSE rsp_val
           rsp_inc == IF mode.reply THEN 1 ELSE 0
       IN  [ok |-> TRUE, req |-> rq, rsp |-> rs,
            req_next |-> rq + 1, rsp_next |-> rs + rsp_inc]
  ELSE [ok |-> FALSE, req |-> None, rsp |-> None,
        req_next |-> req_val, rsp_next |-> rsp_val]

\* The operations built from entry k on; ok is FALSE when an entry raised,
\* and msgs then holds the operations built before it.
RECURSIVE DirectionalFrom(_, _, _, _)
DirectionalFrom(list, k, req_val, rsp_val) ==
  IF k > Len(list) THEN [ok |-> TRUE, msgs |-> <<>>]
  ELSE LET e == DirectionalEntry(list[k], req_val, rsp_val)
       IN  IF ~e.ok THEN [ok |-> FALSE, msgs |-> <<>>]
           ELSE LET rest == DirectionalFrom(list, k + 1, e.req_next, e.rsp_next)
                IN  [ok |-> rest.ok,
                     msgs |-> <<SpecOperation(list[k], e.req, e.rsp)>>
                              \o rest.msgs]

DictifyOpsDirectional(list) == DirectionalFrom(list, 1, 0, 0)

\* ------------------------------------------------------ SpecFamily.resolve
\* Mutant: an attribute set registers itself a second time after building
\* its attributes.
SetElems_Twice(sets, s) ==
  <<AttrSetElem(s)>> \o [j \in 1..Len(sets[s].attributes) |-> AttrElem(s, j)]
  \o <<AttrSetElem(s)>>

\* The elements one attribute set registers, in order: itself (its
\* SpecElement.__init__ runs first), then its attributes.
SetElems(sets, s) ==
  <<AttrSetElem(s)>> \o [j \in 1..Len(sets[s].attributes) |-> AttrElem(s, j)]

RECURSIVE AllSetElems(_, _)
AllSetElems(sets, s) ==
  IF s > Len(sets) THEN <<>>
  ELSE SetElems(sets, s) \o AllSetElems(sets, s + 1)

\* Mutant: the attribute sets are built but not put in self.attr_sets.
AttrSetsOf_Empty(sets) == [n \in {} |-> SpecAttrSet(sets[1])]

\* self.attr_sets[elem['name']] = attr_set, in document order.
AttrSetsOf(sets) ==
  [n \in {sets[s].name : s \in DOMAIN sets} |->
     SpecAttrSet(sets[CHOOSE s \in DOMAIN sets :
                        /\ sets[s].name = n
                        /\ \A h \in DOMAIN sets : sets[h].name = n => h <= s])]

\* The operations the selected enumeration model builds.
DictifyOps(doc) ==
  IF doc.enum_model = "unified" THEN DictifyOpsUnified(doc.list)
  ELSE DictifyOpsDirectional(doc.list)

\* by_value[op.<field>] = op for every operation whose identifier is not
\* None, in msgs order: the last operation with an identifier owns it.
ByValue(m, field) ==
  [v \in {m[i][field] : i \in DOMAIN m} \ {None} |->
     CHOOSE i \in DOMAIN m :
       /\ m[i][field] = v
       /\ \A h \in DOMAIN m : m[h][field] = v => h <= i]

\* Mutant: the test of is_async is dropped.
InOps_NoAsyncTest(op, elem) == elem.attribute_set # NoKey

\* if not op.is_async and 'attribute-set' in op: self.ops[op.name] = op
InOps(op, elem) == ~op.is_async /\ elem.attribute_set # NoKey

ValidOps(m, list) == {i \in DOMAIN m : InOps(m[i], list[i])}

\* ---------------------------------------------- SpecOperation.resolve
\* Mutant: a name that matches no set is looked up with get() and leaves
\* attr_set unset instead of raising KeyError.
LookupAttrSet_Get(attr_set_name) ==
  IF attr_set_name \in DOMAIN attr_sets
  THEN [result |-> "ok", attr_set |-> attr_set_name]
  ELSE [result |-> "ok", attr_set |-> Unset]

\* self.family.attr_sets[attr_set_name], skipped for a false (empty) name.
LookupAttrSet(attr_set_name) ==
  IF attr_set_name = "" THEN [result |-> "ok", attr_set |-> Unset]
  ELSE IF attr_set_name \in DOMAIN attr_sets
  THEN [result |-> "ok", attr_set |-> attr_set_name]
  ELSE [result |-> "KeyError", attr_set |-> Unset]

\* Mutant: a notification finds only the operations declared before it.
OperationResolve_EarlierOnly(i) ==
  LET y == yaml.list[i] IN
  IF y.attribute_set # NoKey THEN LookupAttrSet(y.attribute_set)
  ELSE IF y.notify # None
  THEN IF y.notify \notin DOMAIN msgs \/ y.notify > i
       THEN [result |-> "KeyError", attr_set |-> Unset]
       ELSE IF yaml.list[y.notify].attribute_set = NoKey
       THEN [result |-> "KeyError", attr_set |-> Unset]
       ELSE LookupAttrSet(yaml.list[y.notify].attribute_set)
  ELSE IF msgs[i].is_resv THEN LookupAttrSet("")
  ELSE [result |-> "Exception", attr_set |-> Unset]

\* Mutant: an operation whose attribute set cannot be determined raises
\* KeyError.
OperationResolve_KeyError(i) ==
  LET y == yaml.list[i] IN
  IF y.attribute_set # NoKey THEN LookupAttrSet(y.attribute_set)
  ELSE IF y.notify # None
  THEN IF y.notify \notin DOMAIN msgs
       THEN [result |-> "KeyError", attr_set |-> Unset]
       ELSE IF yaml.list[y.notify].attribute_set = NoKey
       THEN [result |-> "KeyError", attr_set |-> Unset]
       ELSE LookupAttrSet(yaml.list[y.notify].attribute_set)
  ELSE IF msgs[i].is_resv THEN LookupAttrSet("")
  ELSE [result |-> "KeyError", attr_set |-> Unset]

\* The outcome of resolve() on operation i in the current state.
OperationResolve(i) ==
  LET y == yaml.list[i] IN
  IF y.attribute_set # NoKey THEN LookupAttrSet(y.attribute_set)
  ELSE IF y.notify # None
  THEN IF y.notify \notin DOMAIN msgs
       THEN [result |-> "KeyError", attr_set |-> Unset]
       ELSE IF yaml.list[y.notify].attribute_set = NoKey
       THEN [result |-> "KeyError", attr_set |-> Unset]
       ELSE LookupAttrSet(yaml.list[y.notify].attribute_set)
  ELSE IF msgs[i].is_resv THEN LookupAttrSet("")
  ELSE [result |-> "Exception", attr_set |-> Unset]

\* ------------------------------------------------------------------- Init
\* The state at the head of the while loop of SpecFamily.__init__: the
\* family has registered itself, its dictionaries are empty.
EmptyDict == [k \in {} |-> None]

Init ==
  /\ yaml \in Docs
  /\ pc = "while"
  /\ resolution_list = <<Family>>
  /\ unresolved = <<>>
  /\ pos = 1
  /\ resolved = <<>>
  /\ last_exception = NoElem
  /\ error = ""
  /\ attr_sets = EmptyDict
  /\ msgs = <<>>
  /\ req_by_value = EmptyDict
  /\ rsp_by_value = EmptyDict
  /\ ops = {}
  /\ attr_set = <<>>
  /\ super_resolved = {}
  /\ calls = <<>>
  /\ passes = 0

\* ---------------------------------------------------------------- actions
Call(elem, up, result) == [elem |-> elem, up |-> up, result |-> result]

\* while len(self._resolution_list) > 0: the body's first three lines.
WhileEnter ==
  /\ pc = "while"
  /\ Len(resolution_list) > 0
  /\ resolved' = <<>>
  /\ unresolved' = resolution_list
  /\ resolution_list' = <<>>
  /\ pos' = 1
  /\ pc' = "for"
  /\ passes' = passes + 1
  /\ UNCHANGED <<yaml, last_exception, error, attr_sets, msgs, req_by_value,
                 rsp_by_value, ops, attr_set, super_resolved, calls>>

\* The while condition is false: __init__ returns.
WhileExit ==
  /\ pc = "while"
  /\ Len(resolution_list) = 0
  /\ pc' = "done"
  /\ UNCHANGED <<yaml, resolution_list, unresolved, pos, resolved,
                 last_exception, error, attr_sets, msgs, req_by_value,
                 rsp_by_value, ops, attr_set, super_resolved, calls, passes>>

InFor(class) ==
  /\ pc = "for"
  /\ pos <= Len(unresolved)
  /\ unresolved[pos][1] = class

\* elem.resolve() returned: resolved.append(elem), next element.
Resolved(elem) ==
  /\ resolved' = Append(resolved, elem)
  /\ pos' = pos + 1
  /\ UNCHANGED <<yaml, pc, unresolved, last_exception, error, passes>>

\* The family's resolve(): builds the attribute sets and the operations,
\* each registering itself, and fills the by-value and ops dictionaries.
ResolveFamily ==
  /\ InFor("SpecFamily")
  /\ \E built \in {DictifyOps(yaml)} :
       /\ built.ok
       /\ attr_sets' = AttrSetsOf(yaml.attribute_sets)
       /\ msgs' = built.msgs
       /\ attr_set' = [i \in DOMAIN built.msgs |-> Unset]
       /\ req_by_value' = ByValue(built.msgs, "req_value")
       /\ rsp_by_value' = ByValue(built.msgs, "rsp_value")
       /\ ops' = ValidOps(built.msgs, yaml.list)
       /\ resolution_list' = resolution_list
                              \o AllSetElems(yaml.attribute_sets, 1)
                              \o [i \in DOMAIN built.msgs |-> OpElem(i)]
  /\ super_resolved' = super_resolved \cup {Family}
  /\ calls' = Append(calls, Call(Family, Family \notin super_resolved, "ok"))
  /\ Resolved(Family)

\* The family's resolve() raises "Can't parse directional ops": the
\* exception is not caught and ends __init__.
ResolveFamilyFatal ==
  /\ InFor("SpecFamily")
  /\ \E built \in {DictifyOps(yaml)} :
       /\ ~built.ok
       /\ attr_sets' = AttrSetsOf(yaml.attribute_sets)
       /\ msgs' = built.msgs
       /\ attr_set' = [i \in DOMAIN built.msgs |-> Unset]
       /\ resolution_list' = resolution_list
                              \o AllSetElems(yaml.attribute_sets, 1)
                              \o [i \in DOMAIN built.msgs |-> OpElem(i)]
  /\ super_resolved' = super_resolved \cup {Family}
  /\ calls' = Append(calls, Call(Family, Family \notin super_resolved,
                                 "Exception"))
  /\ pc' = "fatal"
  /\ error' = "Can't parse directional ops"
  /\ UNCHANGED <<yaml, unresolved, pos, resolved, last_exception,
                 req_by_value, rsp_by_value, ops, passes>>

\* Mutant: a resolved element is put back on _resolution_list.
ResolveElement_Requeue ==
  /\ \/ InFor("SpecAttrSet")
     \/ InFor("SpecAttr")
  /\ calls' = Append(calls, Call(unresolved[pos], FALSE, "ok"))
  /\ Resolved(unresolved[pos])
  /\ resolution_list' = Append(resolution_list, unresolved[pos])
  /\ UNCHANGED <<attr_sets, msgs, req_by_value, rsp_by_value,
                 ops, attr_set, super_resolved>>

\* SpecElement.resolve(), which SpecAttrSet and SpecAttr inherit: pass.
ResolveElement ==
  /\ \/ InFor("SpecAttrSet")
     \/ InFor("SpecAttr")
  /\ calls' = Append(calls, Call(unresolved[pos], FALSE, "ok"))
  /\ Resolved(unresolved[pos])
  /\ UNCHANGED <<resolution_list, attr_sets, msgs, req_by_value, rsp_by_value,
                 ops, attr_set, super_resolved>>

\* An operation's resolve() returns, attr_set set unless the name is empty.
ResolveOperation ==
  /\ InFor("SpecOperation")
  /\ LET elem == unresolved[pos]
         r == OperationResolve(elem[2])
     IN  /\ r.result = "ok"
         /\ attr_set' = [attr_set EXCEPT ![elem[2]] = r.attr_set]
         /\ super_resolved' = super_resolved \cup {elem}
         /\ calls' = Append(calls, Call(elem, elem \notin super_resolved, "ok"))
         /\ Resolved(elem)
  /\ UNCHANGED <<resolution_list, attr_sets, msgs, req_by_value, rsp_by_value,
                 ops>>

\* Mutant: a deferred element is not put back on _resolution_list.
ResolveOperationDeferred_Drop ==
  /\ InFor("SpecOperation")
  /\ LET elem == unresolved[pos]
         r == OperationResolve(elem[2])
     IN  /\ r.result = "KeyError"
         /\ last_exception' = elem
         /\ super_resolved' = super_resolved \cup {elem}
         /\ calls' = Append(calls, Call(elem, elem \notin super_resolved,
                                        "KeyError"))
  /\ pos' = pos + 1
  /\ UNCHANGED <<yaml, pc, resolution_list, unresolved, resolved, error,
                 attr_sets, msgs, req_by_value, rsp_by_value, ops, attr_set,
                 passes>>

\* Mutant: last_exception keeps the first exception caught.
ResolveOperationDeferred_KeepFirst ==
  /\ InFor("SpecOperation")
  /\ LET elem == unresolved[pos]
         r == OperationResolve(elem[2])
     IN  /\ r.result = "KeyError"
         /\ resolution_list' = Append(resolution_list, elem)
         /\ last_exception' = IF last_exception = NoElem THEN elem
                              ELSE last_exception
         /\ super_resolved' = super_resolved \cup {elem}
         /\ calls' = Append(calls, Call(elem, elem \notin super_resolved,
                                        "KeyError"))
  /\ pos' = pos + 1
  /\ UNCHANGED <<yaml, pc, unresolved, resolved, error, attr_sets, msgs,
                 req_by_value, rsp_by_value, ops, attr_set, passes>>

\* Mutant: _super_resolved is set only when resolve() returns.
ResolveOperationDeferred_NoFlag ==
  /\ InFor("SpecOperation")
  /\ LET elem == unresolved[pos]
         r == OperationResolve(elem[2])
     IN  /\ r.result = "KeyError"
         /\ resolution_list' = Append(resolution_list, elem)
         /\ last_exception' = elem
         /\ calls' = Append(calls, Call(elem, elem \notin super_resolved,
                                        "KeyError"))
  /\ pos' = pos + 1
  /\ UNCHANGED <<yaml, pc, unresolved, resolved, error, attr_sets, msgs,
                 req_by_value, rsp_by_value, ops, attr_set, passes,
                 super_resolved>>

\* An operation's resolve() raises KeyError: the element is put back on
\* _resolution_list and the loop continues.
ResolveOperationDeferred ==
  /\ InFor("SpecOperation")
  /\ LET elem == unresolved[pos]
         r == OperationResolve(elem[2])
     IN  /\ r.result = "KeyError"
         /\ resolution_list' = Append(resolution_list, elem)
         /\ last_exception' = elem
         /\ super_resolved' = super_resolved \cup {elem}
         /\ calls' = Append(calls, Call(elem, elem \notin super_resolved,
                                        "KeyError"))
  /\ pos' = pos + 1
  /\ UNCHANGED <<yaml, pc, unresolved, resolved, error, attr_sets, msgs,
                 req_by_value, rsp_by_value, ops, attr_set, passes>>

\* An operation's resolve() raises "Can't resolve attribute set": the
\* exception is not caught and ends __init__.
ResolveOperationFatal ==
  /\ InFor("SpecOperation")
  /\ LET elem == unresolved[pos]
         r == OperationResolve(elem[2])
     IN  /\ r.result = "Exception"
         /\ super_resolved' = super_resolved \cup {elem}
         /\ calls' = Append(calls, Call(elem, elem \notin super_resolved,
                                        "Exception"))
  /\ pc' = "fatal"
  /\ error' = "Can't resolve attribute set"
  /\ UNCHANGED <<yaml, resolution_list, unresolved, pos, resolved,
                 last_exception, attr_sets, msgs, req_by_value, rsp_by_value,
                 ops, attr_set, passes>>

\* The for loop ended with something resolved: back to the while test.
PassProgress ==
  /\ pc = "for"
  /\ pos > Len(unresolved)
  /\ Len(resolved) # 0
  /\ pc' = "while"
  /\ UNCHANGED <<yaml, resolution_list, unresolved, pos, resolved,
                 last_exception, error, attr_sets, msgs, req_by_value,
                 rsp_by_value, ops, attr_set, super_resolved, calls, passes>>

\* Mutant: a pass that resolved nothing does not raise.
PassStuck_Continue ==
  /\ pc = "for"
  /\ pos > Len(unresolved)
  /\ Len(resolved) = 0
  /\ pc' = "while"
  /\ UNCHANGED <<yaml, resolution_list, unresolved, pos, resolved,
                 last_exception, error, attr_sets, msgs, req_by_value,
                 rsp_by_value, ops, attr_set, super_resolved, calls, passes>>

\* The for loop ended with nothing resolved: "Could not resolve any spec
\* element, infinite loop?".
PassStuck ==
  /\ pc = "for"
  /\ pos > Len(unresolved)
  /\ Len(resolved) = 0
  /\ pc' = "fatal"
  /\ error' = "Could not resolve any spec element"
  /\ UNCHANGED <<yaml, resolution_list, unresolved, pos, resolved,
                 last_exception, attr_sets, msgs, req_by_value, rsp_by_value,
                 ops, attr_set, super_resolved, calls, passes>>

Next ==
  \/ WhileEnter
  \/ WhileExit
  \/ ResolveFamily
  \/ ResolveFamilyFatal
  \/ ResolveElement
  \/ ResolveOperation
  \/ ResolveOperationDeferred
  \/ ResolveOperationFatal
  \/ PassProgress
  \/ PassStuck

Spec == Init /\ [][Next]_vars

\* The loop is sequential code: whenever a step is possible, one is taken.
FairSpec == Spec /\ WF_vars(Next)

\* ============================================================== properties
Terminated == pc \in {"done", "fatal"}
Deadlocked == pc = "fatal" /\ error = "Could not resolve any spec element"

\* The calls of resolve() that returned, and the elements they were made on.
OkCalls == {k \in DOMAIN calls : calls[k].result = "ok"}
OkElems == {calls[k].elem : k \in OkCalls}

\* Every element the document gives rise to.
DocElems(doc) ==
  {Family}
  \cup {AttrSetElem(s) : s \in DOMAIN doc.attribute_sets}
  \cup UNION {{AttrElem(s, j) : j \in DOMAIN doc.attribute_sets[s].attributes} :
               s \in DOMAIN doc.attribute_sets}
  \cup {OpElem(i) : i \in DOMAIN doc.list}

Range(q) == {q[k] : k \in DOMAIN q}

\* The elements still to be visited: the pending list and the rest of the
\* list the current pass walks.
Pending ==
  Range(resolution_list)
  \cup (IF pc = "for" THEN {unresolved[k] : k \in pos..Len(unresolved)} ELSE {})

\* Steps taken so far: every step of the loop adds at least one.
Measure ==
  Len(calls) + 2 * passes - (IF pc = "for" THEN 1 ELSE 0)
  + (IF Terminated THEN 1 ELSE 0)

\* C1: the resolution loop terminates, with success or a fatal error.  Every
\* step advances a measure that the document bounds, and a step is possible
\* until the load has ended; every pass that does not abort resolves at
\* least one element for good, so the passes begun never exceed the elements
\* resolved so far by more than one, and the elements resolved never exceed
\* those of the document.
C1_Terminates ==
  /\ [][Measure' > Measure]_vars
  /\ [](LET n == Cardinality(DocElems(yaml)) IN
        /\ Terminated \/ ENABLED Next
        /\ passes <= Cardinality(OkCalls) + 1
        /\ (pc = "while" => passes <= Cardinality(OkCalls))
        /\ Cardinality(OkCalls) <= n
        /\ Len(calls) <= passes * n
        /\ Measure <= (n + 1) * (n + 2) + 1)

\* C1 witness: a load that ended after several passes.
C1_Witness == Terminated /\ passes >= 3

\* C3: an element whose resolve() returned is never pending again and
\* resolve() is never called on it again.
C3_ResolvedOnce ==
  \A k \in OkCalls :
    /\ calls[k].elem \notin Pending
    /\ \A h \in DOMAIN calls : h > k => calls[h].elem # calls[k].elem

\* C3 witness: a third pass is walking the deferred elements after an
\* operation resolved in the second.
C3_Witness ==
  /\ pc = "for"
  /\ passes = 3
  /\ \E k \in OkCalls : calls[k].elem[1] = "SpecOperation"

\* The names of the document's attribute sets.
SetNames(doc) == {doc.attribute_sets[s].name : s \in DOMAIN doc.attribute_sets}

\* The operations declaring an attribute-set name that matches no set, and
\* those among them whose name is not empty.
Unmatched(doc) ==
  {i \in DOMAIN doc.list :
     doc.list[i].attribute_set \notin {NoKey} \cup SetNames(doc)}
Dangling(doc) == {i \in Unmatched(doc) : doc.list[i].attribute_set # ""}

\* The calls of resolve() made on operation i.
CallsOn(i) == {k \in DOMAIN calls : calls[k].elem = OpElem(i)}

\* C2 as stated: with an operation declaring an attribute-set name that
\* matches no set, the load ends with the resolution-deadlock failure.
C2_Original == Unmatched(yaml) # {} /\ Terminated => Deadlocked

\* C2 amended: with an operation declaring a non-empty attribute-set name
\* that matches no set, the load never succeeds and runs at most three
\* passes; every resolve() of that operation is deferred; the load ends
\* with the resolution-deadlock failure unless another fatal error ends it
\* first (an entry the directional model cannot parse, or another operation
\* whose attribute set cannot be determined).
C2_DanglingNeverLoads ==
  Dangling(yaml) # {} =>
    /\ pc # "done"
    /\ passes <= 3
    /\ \A i \in Dangling(yaml) : \A k \in CallsOn(i) :
         calls[k].result = "KeyError"
    /\ Terminated =>
         \/ Deadlocked
         \/ /\ error = "Can't parse directional ops"
            /\ yaml.enum_model = "directional"
            /\ \E i \in DOMAIN yaml.list :
                 yaml.list[i].notify = None /\ ~IsCall(yaml.list[i])
         \/ /\ error = "Can't resolve attribute set"
            /\ \E i \in DOMAIN yaml.list \ Dangling(yaml) :
                 /\ yaml.list[i].attribute_set = NoKey
                 /\ yaml.list[i].notify = None
                 /\ ~IsResv(yaml.list[i])

\* C2 witness: the load deadlocked in its third pass on a dangling name.
C2_Witness == Dangling(yaml) # {} /\ Deadlocked /\ passes = 3

\* The notifications of another operation that declare no attribute set.
Borrowers(doc) ==
  {i \in DOMAIN doc.list :
     doc.list[i].notify # None /\ doc.list[i].attribute_set = NoKey}

\* C4 as stated: a notification that declares no attribute set ends the
\* load with attr_set the family's set named by the referenced operation.
C4_Original ==
  pc = "done" =>
    \A i \in Borrowers(yaml) :
      /\ attr_set[i] \in DOMAIN attr_sets
      /\ attr_set[i] = yaml.list[yaml.list[i].notify].attribute_set

\* C4 amended: whether the referenced operation comes before or after it, a
\* notification that declares no attribute set resolves on its first call
\* when the referenced operation declares the name of a set of the family,
\* and ends the load with attr_set that set; when the referenced operation
\* declares the empty name, the notification ends the load without attr_set.
C4_NotifyBorrows ==
  \A i \in Borrowers(yaml) :
    LET target == yaml.list[i].notify IN
    /\ (/\ target \in DOMAIN yaml.list
        /\ yaml.list[target].attribute_set \in SetNames(yaml)) =>
          \A k \in CallsOn(i) : calls[k].result = "ok"
    /\ pc = "done" =>
         /\ target \in DOMAIN yaml.list
         /\ yaml.list[target].attribute_set # NoKey
         /\ IF yaml.list[target].attribute_set = ""
            THEN attr_set[i] = Unset
            ELSE /\ attr_set[i] = yaml.list[target].attribute_set
                 /\ attr_set[i] \in DOMAIN attr_sets

\* C4 witness: a load ended with a notification holding the set of an
\* operation declared after it.
C4_Witness ==
  /\ pc = "done"
  /\ \E i \in Borrowers(yaml) : yaml.list[i].notify > i /\ attr_set[i] = "s1"

\* C5: every attribute's value is its explicit value if it declares one,
\* otherwise the previous attribute's value plus 1 (0 for the first); a list
\* with no explicit values gets 0..k-1 in declaration order.
C5_AttrValues ==
  \A s \in DOMAIN yaml.attribute_sets :
    LET entries == yaml.attribute_sets[s].attributes
        name == yaml.attribute_sets[s].name
    IN  name \in DOMAIN attr_sets =>
          LET attrs == attr_sets[name].attrs IN
          /\ DOMAIN attrs = DOMAIN entries
          /\ \A j \in DOMAIN entries :
               attrs[j].value =
                 IF entries[j].value # None THEN entries[j].value
                 ELSE IF j = 1 THEN 0 ELSE attrs[j - 1].value + 1
          /\ (\A j \in DOMAIN entries : entries[j].value = None) =>
               \A j \in DOMAIN entries : attrs[j].value = j - 1

\* C5 witness: a set of three attributes was built, the second with an
\* explicit value that is not its position, the third counting on from it.
C5_Witness ==
  /\ "s1" \in DOMAIN attr_sets
  /\ LET entries == yaml.attribute_sets[1].attributes
         attrs == attr_sets["s1"].attrs
     IN  /\ Len(entries) = 3
         /\ entries[2].value \notin {None, 1}
         /\ entries[3].value = None
         /\ attrs[3].value = entries[2].value + 1

\* C6: in every attribute set built, the values are unique and attrs and
\* attrs_by_val hold the same attributes, each in exactly one slot.
C6_Consistent ==
  \A n \in DOMAIN attr_sets :
    LET attrs == attr_sets[n].attrs
        by_val == attr_sets[n].attrs_by_val
    IN  /\ \A j, h \in DOMAIN attrs : attrs[j].value = attrs[h].value => j = h
        /\ Cardinality(DOMAIN by_val) = Cardinality(DOMAIN attrs)
        /\ \A j \in DOMAIN attrs : by_val[attrs[j].value] = attrs[j]

\* The family's resolve() has built the operations.
FamilyResolved == Family \in OkElems

\* C7: under the unified model, with no explicit value in the list, the
\* entry at index i (from 0) gets req_value = rsp_value = value = i.
C7_UnifiedIndex ==
  (/\ FamilyResolved
   /\ yaml.enum_model = "unified"
   /\ \A i \in DOMAIN yaml.list : yaml.list[i].value = None) =>
     /\ DOMAIN msgs = DOMAIN yaml.list
     /\ \A i \in DOMAIN msgs :
          /\ msgs[i].req_value = i - 1
          /\ msgs[i].rsp_value = i - 1
          /\ msgs[i].value = i - 1

\* C7 witness: a unified list of three entries without explicit values was
\* built.
C7_Witness ==
  /\ FamilyResolved
  /\ yaml.enum_model = "unified"
  /\ Len(yaml.list) = 3
  /\ \A i \in DOMAIN yaml.list : yaml.list[i].value = None

C9_ReservedNotInOps ==
  pc = "done" =>
    \A i \in DOMAIN yaml.list :
      IsResv(yaml.list[i]) => i \in DOMAIN msgs /\ i \notin ops

\* The number of classification flags of an operation that are true.
FlagCount(op) ==
  (IF op.is_call THEN 1 ELSE 0) + (IF op.is_async THEN 1 ELSE 0)
  + (IF op.is_resv THEN 1 ELSE 0)

\* C10: exactly one of is_call, is_async, is_resv is true of every operation
\* built, whatever keys its entry carries.
C10_ExactlyOneFlag == \A i \in DOMAIN msgs : FlagCount(msgs[i]) = 1

\* C11: after a successful load, reverse lookup by identifier returns the
\* operation that owns it: every operation with a request identifier is the
\* entry of req_by_value under it, every operation with a response identifier
\* the entry of rsp_by_value under it, and the identifiers the two mappings
\* hold are exactly those of the operations.
C11_ReverseLookup ==
  pc = "done" =>
    /\ \A i \in DOMAIN msgs :
         /\ msgs[i].req_value # None =>
              /\ msgs[i].req_value \in DOMAIN req_by_value
              /\ req_by_value[msgs[i].req_value] = i
         /\ msgs[i].rsp_value # None =>
              /\ msgs[i].rsp_value \in DOMAIN rsp_by_value
              /\ rsp_by_value[msgs[i].rsp_value] = i
    /\ DOMAIN req_by_value = {msgs[i].req_value : i \in DOMAIN msgs} \ {None}
    /\ DOMAIN rsp_by_value = {msgs[i].rsp_value : i \in DOMAIN msgs} \ {None}

\* C12: a load that returns leaves nothing pending, and resolve() has
\* returned, exactly once, on every element the document gives rise to: the
\* family, every attribute set, every attribute, every operation.
C12_AllOrNothing ==
  pc = "done" =>
    /\ resolution_list = <<>>
    /\ Pending = {}
    /\ error = ""
    /\ DOMAIN msgs = DOMAIN yaml.list
    /\ OkElems = DocElems(yaml)
    /\ \A e \in DocElems(yaml) :
         Cardinality({k \in OkCalls : calls[k].elem = e}) = 1

\* C12 witness: a load returned after a pass that walked attribute sets,
\* attributes and MaxOps operations.
C12_Witness ==
  /\ pc = "done"
  /\ Len(yaml.list) = MaxOps
  /\ \E s \in DOMAIN yaml.attribute_sets :
       Len(yaml.attribute_sets[s].attributes) > 0

\* The for loop of the current pass has ended with nothing resolved.
PassEndedEmpty == pc = "for" /\ pos > Len(unresolved) /\ Len(resolved) = 0

\* The step appended a call of resolve() that raised KeyError.
DeferredStep ==
  /\ Len(calls') = Len(calls) + 1
  /\ calls'[Len(calls')].result = "KeyError"

\* C13: a pass that walks its whole (non-empty) list without resolving any
\* element ends the load at once with the resolution-deadlock failure, no
\* further pass begun; the exception kept for the diagnostic is the one
\* raised by the last element the pass visited; and every deferral puts the
\* element back on the pending list for the next pass and records it as the
\* last exception, so the stuck pass leaves its whole list pending.
C13_StuckPassAborts ==
  /\ [][/\ PassEndedEmpty =>
             /\ Deadlocked'
             /\ passes' = passes
             /\ calls' = calls
             /\ last_exception' = last_exception
        /\ DeferredStep =>
             /\ resolution_list' =
                  Append(resolution_list, calls'[Len(calls')].elem)
             /\ last_exception' = calls'[Len(calls')].elem
             /\ calls'[Len(calls')].elem = unresolved[pos]
             /\ pc' = "for"]_vars
  /\ []((PassEndedEmpty \/ Deadlocked) =>
          /\ Len(unresolved) > 0
          /\ last_exception = unresolved[Len(unresolved)]
          /\ resolution_list = unresolved
          /\ Len(calls) >= Len(unresolved)
          /\ \A k \in DOMAIN unresolved :
               LET c == calls[Len(calls) - Len(unresolved) + k]
               IN  c.elem = unresolved[k] /\ c.result = "KeyError")

\* C13 witness: the load deadlocked after a pass that deferred two
\* operations, the last exception being the second one's.
C13_Witness ==
  /\ Deadlocked
  /\ Len(unresolved) = 2
  /\ last_exception = unresolved[2]
  /\ last_exception # unresolved[1]

\* The operations whose attribute set cannot be determined: no attribute-set
\* key, no notify key, and not reserved (a call or an event).
Undetermined(doc) ==
  {i \in DOMAIN doc.list :
     /\ doc.list[i].attribute_set = NoKey
     /\ doc.list[i].notify = None
     /\ ~IsResv(doc.list[i])}

\* C14: the first resolve() of an operation whose attribute set cannot be
\* determined ends the load with the fatal error "Can't resolve attribute
\* set": that call is the operation's only one and the last call of the
\* load, the operation is not put back on the pending list, no further pass
\* begins, and the failure is not the resolution deadlock.
C14_UndeterminedIsFatal ==
  /\ [][pc = "fatal" => pc' = "fatal" /\ calls' = calls /\ passes' = passes]_vars
  /\ [](\A i \in Undetermined(yaml) :
          /\ Cardinality(CallsOn(i)) <= 1
          /\ \A k \in CallsOn(i) :
               /\ calls[k].result = "Exception"
               /\ k = Len(calls)
               /\ pc = "fatal"
               /\ error = "Can't resolve attribute set"
               /\ ~Deadlocked
               /\ OpElem(i) \notin Range(resolution_list)
               /\ OpElem(i) \notin Range(resolved))

\* C14 witness: the load was ended by a call without attribute set, in a
\* pass that had deferred another operation before it.
C14_Witness ==
  /\ pc = "fatal"
  /\ error = "Can't resolve attribute set"
  /\ Len(calls) >= 2
  /\ calls[Len(calls)].elem[2] \in Undetermined(yaml)
  /\ calls[Len(calls) - 1].result = "KeyError"

\* The calls of resolve() made on element e, and those among them in which
\* resolve_up ran the superclass-level step.
CallsOf(e) == {k \in DOMAIN calls : calls[k].elem = e}
UpCallsOf(e) == {k \in CallsOf(e) : calls[k].up}

\* C15: over the whole load the superclass-level step runs at most once for
\* every element: in the first resolve() call of a family or an operation,
\* before the element's own logic (so also when that first call is deferred
\* or raises), and in no later call however many passes visit the element;
\* the flag _super_resolved is set from that first call on.
C15_SuperOnce ==
  \A e \in {calls[k].elem : k \in DOMAIN calls} :
    /\ Cardinality(UpCallsOf(e)) <= 1
    /\ \A k \in UpCallsOf(e) : \A h \in CallsOf(e) : k <= h
    /\ e[1] \in {"SpecFamily", "SpecOperation"} =>
         /\ Cardinality(UpCallsOf(e)) = 1
         /\ e \in super_resolved
    /\ e[1] \in {"SpecAttrSet", "SpecAttr"} => UpCallsOf(e) = {}

\* C15 witness: resolve() was called on an operation in two passes, deferred
\* both times; the superclass-level step ran in the first call only.
C15_Witness ==
  \E i \in DOMAIN yaml.list :
    /\ Cardinality(CallsOn(i)) = 2
    /\ \A k \in CallsOn(i) : calls[k].result = "KeyError"
    /\ Cardinality(UpCallsOf(OpElem(i))) = 1

\* C16: the family is the first element of the pending list and the first
\* resolved: the first pass walks the family alone, the first resolve() call
\* of every load is the family's, and a call on any other element comes only
\* after that call returned; so whenever resolve() has been called on an
\* attribute set, an attribute or an operation, every operation of the
\* document is in msgs and every attribute set in attr_sets.
C16_FamilyFirst ==
  /\ passes = 0 => resolution_list = <<Family>>
  /\ passes = 1 => unresolved = <<Family>>
  /\ calls # <<>> => calls[1].elem = Family
  /\ \A k \in DOMAIN calls :
       calls[k].elem # Family =>
         /\ k > 1
         /\ calls[1].result = "ok"
         /\ passes >= 2
         /\ DOMAIN msgs = DOMAIN yaml.list
         /\ DOMAIN attr_sets = SetNames(yaml)

\* C16 witness: an operation's resolve() has been called, after the family's,
\* with an attribute set and MaxOps operations built.
C16_Witness ==
  /\ \E k \in DOMAIN calls : calls[k].elem[1] = "SpecOperation"
  /\ Len(msgs) = MaxOps
  /\ "s1" \in DOMAIN attr_sets

\* The sub-declaration a call entry's identifiers are read from: do if
\* present, else dump.
ModeOf(elem) == IF elem.do.present THEN elem.do ELSE elem.dump

\* C17: under the directional model, an explicit value under a call entry's
\* request becomes its req_value and an explicit value under its reply its
\* rsp_value, for every explicit value including 0; and a call entry without
\* an explicit request value that follows a call entry counts on from that
\* entry's req_value.
C17_ExplicitOverrides ==
  (FamilyResolved /\ yaml.enum_model = "directional") =>
    \A i \in DOMAIN msgs :
      LET elem == yaml.list[i] IN
      (elem.notify = None /\ IsCall(elem)) =>
        /\ ModeOf(elem).request_value # None =>
             msgs[i].req_value = ModeOf(elem).request_value
        /\ (ModeOf(elem).reply /\ ModeOf(elem).reply_value # None) =>
             msgs[i].rsp_value = ModeOf(elem).reply_value
        /\ (/\ i > 1
            /\ yaml.list[i - 1].notify = None
            /\ ModeOf(elem).request_value = None) =>
             msgs[i].req_value = msgs[i - 1].req_value + 1

\* The request counter at the head of iteration i, told from the entries
\* before it: one more than the req_value of the last call entry before i,
\* 0 if there is none.
ReqCounterAt(i) ==
  LET before == {h \in 1..(i - 1) : yaml.list[h].notify = None}
  IN  IF before = {} THEN 0
      ELSE msgs[CHOOSE h \in before : \A g \in before : g <= h].req_value + 1

\* The response counter at the head of iteration i: 0 for the first entry,
\* else the previous entry's rsp_value, plus 1 if that entry is a
\* notification or a call declaring a reply.
RspCounterAt(i) ==
  IF i = 1 THEN 0
  ELSE LET prev == yaml.list[i - 1]
       IN  msgs[i - 1].rsp_value
           + (IF prev.notify # None \/ ModeOf(prev).reply THEN 1 ELSE 0)

\* C18: under the directional model every notification entry has no
\* req_value and has rsp_value its explicit value if it declares one, else
\* the response counter; the entry after it sees the response counter
\* advanced by 1 and the request counter of before the notification,
\* whatever entries come before and after, another notification included.
C18_NotifyCounters ==
  (FamilyResolved /\ yaml.enum_model = "directional") =>
    \A i \in DOMAIN msgs :
      LET elem == yaml.list[i] IN
      elem.notify # None =>
        /\ msgs[i].req_value = None
        /\ msgs[i].rsp_value =
             IF elem.value # None THEN elem.value ELSE RspCounterAt(i)
        /\ (i + 1) \in DOMAIN msgs =>
             LET next == yaml.list[i + 1] IN
             /\ (next.notify # None /\ next.value = None) =>
                  msgs[i + 1].rsp_value = msgs[i].rsp_value + 1
             /\ (next.notify = None /\ ~Truthy(ModeOf(next).request_value)) =>
                  msgs[i + 1].req_value = ReqCounterAt(i)
             /\ (/\ next.notify = None
                 /\ ~(ModeOf(next).reply /\ Truthy(ModeOf(next).reply_value))) =>
                  msgs[i + 1].rsp_value = msgs[i].rsp_value + 1

\* C18 witness: a directional list was built in which a call is followed by
\* two notifications and the second notification came out one above the
\* first.
C18_Witness ==
  /\ FamilyResolved
  /\ yaml.enum_model = "directional"
  /\ Len(yaml.list) = 3
  /\ yaml.list[1].notify = None
  /\ yaml.list[2].notify # None
  /\ yaml.list[3].notify # None
  /\ msgs[3].rsp_value = msgs[2].rsp_value + 1

\* C19 as stated: after a successful load ops holds exactly the operations
\* that are not asynchronous and carry a resolved attribute set.
C19_Original ==
  pc = "done" =>
    /\ \A i \in ops : ~msgs[i].is_async /\ attr_set[i] \in DOMAIN attr_sets
    /\ \A i \in DOMAIN msgs :
         (~msgs[i].is_async /\ attr_set[i] # Unset) => i \in ops

\* C19 amended: from the family's resolve step on, before any operation has
\* been resolved, ops holds exactly the operations that are not asynchronous
\* and declare an attribute-set key; after a successful load every operation
\* in ops has attr_set the family's set of the declared name, except that an
\* operation declaring the empty name is in ops without attr_set; and every
\* operation that is not asynchronous and has attr_set is in ops.
C19_OpsCatalog ==
  /\ ~FamilyResolved => ops = {}
  /\ FamilyResolved =>
       ops = {i \in DOMAIN msgs :
                ~msgs[i].is_async /\ yaml.list[i].attribute_set # NoKey}
  /\ pc = "done" =>
       /\ \A i \in ops :
            IF yaml.list[i].attribute_set = ""
            THEN attr_set[i] = Unset
            ELSE /\ attr_set[i] = yaml.list[i].attribute_set
                 /\ attr_set[i] \in DOMAIN attr_sets
       /\ \A i \in DOMAIN msgs :
            (~msgs[i].is_async /\ attr_set[i] # Unset) => i \in ops

\* C19 witness: a load returned with one operation in ops holding its set
\* and an asynchronous operation with a set left out of ops.
C19_Witness ==
  /\ pc = "done"
  /\ \E i \in ops : attr_set[i] = "s1"
  /\ \E i \in DOMAIN msgs \ ops : msgs[i].is_async /\ attr_set[i] = "s1"

\* No element occurs twice in the sequence.
NoDup(q) == \A k, h \in DOMAIN q : q[k] = q[h] => k = h

\* The elements registered so far: the family, and once its resolve() has
\* run, those of the attribute sets and operations it built.
Registered ==
  {Family}
  \cup (IF calls = <<>> THEN {}
        ELSE Range(AllSetElems(yaml.attribute_sets, 1))
             \cup {OpElem(i) : i \in DOMAIN msgs})

\* C20: the pending list and the list the current pass walks never hold an
\* element twice, nor does a pending element also wait in the rest of the
\* current pass; every element is registered once (the lists hold registered
\* elements only, and until the load fails each registered element is either
\* still to be visited or has had resolve() return, never both); and the
\* family's resolve() runs at most once per load.
C20_NoDuplicates ==
  /\ NoDup(resolution_list)
  /\ NoDup(unresolved)
  /\ pc = "for" =>
       \A k \in pos..Len(unresolved) :
         unresolved[k] \notin Range(resolution_list)
  /\ Range(resolution_list) \cup Range(unresolved) \subseteq Registered
  /\ pc # "fatal" =>
       \A e \in Registered : (e \in Pending) # (e \in OkElems)
  /\ Cardinality(CallsOf(Family)) <= 1

\* C20 witness: a third pass is walking two deferred operations, the first
\* of them deferred again, after the family, an attribute set and its
\* attribute were resolved.
C20_Witness ==
  /\ pc = "for"
  /\ passes = 3
  /\ Len(unresolved) = 2
  /\ Len(resolution_list) = 1
  /\ AttrElem(1, 1) \in OkElems

====
